---- MODULE Spec2Model ----
(***************************************************************************)
(* Model of the image-processing app: the step history kept by App         *)
(* (past / present / future), the parameter form of ProcessingOptions and  *)
(* the replay of the step chain by ImageProcessor.processImage.            *)
(*                                                                         *)
(* Numbers of the parameter record are kept as their decimal text          *)
(* ("127", "1.5"): no arithmetic is done on them by the modelled code.     *)
(***************************************************************************)
EXTENDS Integers, Sequences, FiniteSets, TLC

\* ---------------------------------------------------------------- bounds
\* Number of step objects handleAddStep may create in one behaviour.
MaxSteps == 2
\* Number of addStep calls when the history is driven on its own.
MaxHistSteps == 3
\* Length of the step chains handed to ImageProcessor on its own.
MaxChain == 2
\* Number of processImage runs that may be waiting for loadImage at once.
MaxRuns == 2

VARIABLES
    image,           \* App state: data URL of the original image, or Null
    processedImage,  \* App state: data URL of the final image, or Null
    selectedOption,  \* App state: the selected operation, or Null
    params,          \* App state: the live parameter record
    history,         \* App state: [past, present, future]
    openCvLoaded,    \* App state: set by script.onload
    windowCv,        \* window.cv is defined
    nextId,          \* identity of the next step object created
    runs,            \* processImage calls suspended in `await loadImage`
    consoleErrors    \* messages written with console.error

vars == <<image, processedImage, selectedOption, params, history,
          openCvLoaded, windowCv, nextId, runs, consoleErrors>>

Null == "null"

\* ------------------------------------------------------------ sequences
Front(s) == SubSeq(s, 1, Len(s) - 1)
Last(s) == s[Len(s)]
RemoveAt(s, i) == SubSeq(s, 1, i - 1) \o SubSeq(s, i + 1, Len(s))

\* ---------------------------------------------------------------- types
\* type ProcessingOption: the closed set of 15 identifiers.
Options ==
    { "Histogram Equalization", "Adaptive Histogram Equalization",
      "Edge Detection", "Unsharp Masking", "High-Pass Filtering",
      "Laplacian Filtering", "Color Inversion", "Thresholding",
      "Pseudocolor Mapping", "Fourier Transform", "Color Boosting",
      "Channel Mixing Simulation", "Manual Colorization",
      "Multi-Scale Retinex", "Gabor Filter" }

\* The option buttons pressed in the explored behaviours.
SelectableOptions == { "Color Inversion", "Thresholding" }

\* Files the user picks: the data URL FileReader produces for each.
Images == { "imgA", "imgB" }

\* useState<ProcessingParams>({...}): the initial live parameter record.
DefaultParams ==
    [ clipLimit |-> "2.0", tileSize |-> "8",
      threshold1 |-> "50", threshold2 |-> "150",
      sigma |-> "3", amount |-> "1.5",
      kernelSize |-> "3", scale |-> "1",
      threshold |-> "127", colorMap |-> "2",
      boostFactor |-> <<"1", "1", "1">>,
      mixFactors |-> << <<"1", "0", "0">>, <<"0", "1", "0">>, <<"0", "0", "1">> >>,
      colorTint |-> <<"128", "128", "128">>,
      retinexScales |-> <<"15", "80", "250">>,
      gaborKernelSize |-> "31", gaborSigma |-> "5", gaborTheta |-> "0",
      gaborLambda |-> "10", gaborGamma |-> "0.5", gaborPsi |-> "0" ]

\* The null of a `ProcessingStep | null`: a step object has an id of 1 or more.
NullStep == [id |-> 0]

\* useState<ProcessingHistory>({ past: [], present: null, future: [] })
EmptyHistory == [past |-> <<>>, present |-> NullStep, future |-> <<>>]

\* --------------------------------------------------------- step history
\* The updater addStep hands to setHistory.
AddStepPrepends(prevHistory, step) ==
    [past |-> <<step>> \o prevHistory.past,
     present |-> NullStep,
     future |-> <<>>]

AddStepDropsNothing(prevHistory, step) ==
    [past |-> Append(prevHistory.past, step),
     present |-> NullStep,
     future |-> prevHistory.future]

addStepUpdater(prevHistory, step) ==
    [past |-> Append(prevHistory.past, step),
     present |-> NullStep,
     future |-> <<>>]

\* The updater undo hands to setHistory: newPast.pop() yields undefined on
\* an empty past, and then prevHistory itself is returned.
UndoToBack(prevHistory) ==
    IF prevHistory.past = <<>>
    THEN prevHistory
    ELSE [past |-> Front(prevHistory.past),
          present |-> prevHistory.present,
          future |-> Append(prevHistory.future, Last(prevHistory.past))]

UndoForgetsStep(prevHistory) ==
    IF prevHistory.past = <<>>
    THEN prevHistory
    ELSE [past |-> Front(prevHistory.past),
          present |-> prevHistory.present,
          future |-> prevHistory.future]

UndoSetsPresent(prevHistory) ==
    IF prevHistory.past = <<>>
    THEN prevHistory
    ELSE [past |-> Front(prevHistory.past),
          present |-> Last(prevHistory.past),
          future |-> <<Last(prevHistory.past)>> \o prevHistory.future]

undoUpdater(prevHistory) ==
    IF prevHistory.past = <<>>
    THEN prevHistory
    ELSE [past |-> Front(prevHistory.past),
          present |-> prevHistory.present,
          future |-> <<Last(prevHistory.past)>> \o prevHistory.future]

\* The updater redo hands to setHistory: newFuture.shift() yields undefined
\* on an empty future, and then prevHistory itself is returned.
RedoFromBack(prevHistory) ==
    IF prevHistory.future = <<>>
    THEN prevHistory
    ELSE [past |-> Append(prevHistory.past, Last(prevHistory.future)),
          present |-> prevHistory.present,
          future |-> Front(prevHistory.future)]

RedoKeepsFuture(prevHistory) ==
    IF prevHistory.future = <<>>
    THEN prevHistory
    ELSE [past |-> Append(prevHistory.past, Head(prevHistory.future)),
          present |-> prevHistory.present,
          future |-> prevHistory.future]

redoUpdater(prevHistory) ==
    IF prevHistory.future = <<>>
    THEN prevHistory
    ELSE [past |-> Append(prevHistory.past, Head(prevHistory.future)),
          present |-> prevHistory.present,
          future |-> Tail(prevHistory.future)]

\* The step object handleAddStep builds: { option: selectedOption, params }.
\* id is the identity of the freshly allocated object.
NewStep(option, p) == [id |-> nextId, option |-> option, params |-> p]

\* Identities of the step objects a history holds.
StepIds(h) == { h.past[i].id : i \in 1..Len(h.past) }
                  \cup { h.future[i].id : i \in 1..Len(h.future) }

\* ------------------------------------------------------ parameter form
\* renderParams: the names of the <input> elements shown for an option.
FormFields(option) ==
    CASE option = "Adaptive Histogram Equalization" -> {"clipLimit", "tileSize"}
      [] option = "Edge Detection" -> {"threshold1", "threshold2"}
      [] option = "Unsharp Masking" -> {"sigma", "amount"}
      [] option \in {"High-Pass Filtering", "Laplacian Filtering"} -> {"kernelSize"}
      [] option = "Thresholding" -> {"threshold"}
      [] option = "Pseudocolor Mapping" -> {"colorMap"}
      [] option = "Color Boosting" ->
            {"boostFactor[0]", "boostFactor[1]", "boostFactor[2]"}
      [] option = "Channel Mixing Simulation" ->
            {"mixFactors[0][0]", "mixFactors[0][1]", "mixFactors[0][2]",
             "mixFactors[1][0]", "mixFactors[1][1]", "mixFactors[1][2]",
             "mixFactors[2][0]", "mixFactors[2][1]", "mixFactors[2][2]"}
      [] option = "Manual Colorization" ->
            {"colorTint[0]", "colorTint[1]", "colorTint[2]"}
      [] option = "Multi-Scale Retinex" ->
            {"retinexScales[0]", "retinexScales[1]", "retinexScales[2]"}
      [] option = "Gabor Filter" ->
            {"gaborKernelSize", "gaborSigma", "gaborTheta", "gaborLambda",
             "gaborGamma", "gaborPsi"}
      [] OTHER -> {}

\* Texts typed into a number input in the explored behaviours.
InputTexts == { "64" }

\* parseFloat on the text of an input: the empty text gives NaN, a decimal
\* text gives its number (trailing zeros of the fraction are not kept).
parseFloat(text) ==
    CASE text = "" -> "NaN"
      [] text = "64" -> "64"
      [] text = "64.0" -> "64"
      [] text = "2.50" -> "2.5"
      [] OTHER -> "NaN"

\* setParams({ ...params, [name]: parseFloat(value) }): the key `name` is
\* set on a copy of the record, and added when the record has no such key.
paramsWith(p, name, value) ==
    [k \in (DOMAIN p) \cup {name} |-> IF k = name THEN parseFloat(value) ELSE p[k]]

\* value={...} of the <input> called `name` in renderParams: the field of
\* params, or the component of a vector or matrix field, the input shows.
\* It is the same place applyProcessingStep reads (params.boostFactor[i],
\* params.mixFactors[i][j], ...params.colorTint, params.retinexScales).
inputValue(p, name) ==
    CASE name = "boostFactor[0]" -> p.boostFactor[1]
      [] name = "boostFactor[1]" -> p.boostFactor[2]
      [] name = "boostFactor[2]" -> p.boostFactor[3]
      [] name = "mixFactors[0][0]" -> p.mixFactors[1][1]
      [] name = "mixFactors[0][1]" -> p.mixFactors[1][2]
      [] name = "mixFactors[0][2]" -> p.mixFactors[1][3]
      [] name = "mixFactors[1][0]" -> p.mixFactors[2][1]
      [] name = "mixFactors[1][1]" -> p.mixFactors[2][2]
      [] name = "mixFactors[1][2]" -> p.mixFactors[2][3]
      [] name = "mixFactors[2][0]" -> p.mixFactors[3][1]
      [] name = "mixFactors[2][1]" -> p.mixFactors[3][2]
      [] name = "mixFactors[2][2]" -> p.mixFactors[3][3]
      [] name = "colorTint[0]" -> p.colorTint[1]
      [] name = "colorTint[1]" -> p.colorTint[2]
      [] name = "colorTint[2]" -> p.colorTint[3]
      [] name = "retinexScales[0]" -> p.retinexScales[1]
      [] name = "retinexScales[1]" -> p.retinexScales[2]
      [] name = "retinexScales[2]" -> p.retinexScales[3]
      [] OTHER -> p[name]

\* ------------------------------------------------------ pipeline executor
\* The fields of params each case of applyProcessingStep reads.
UsedFields(option) ==
    CASE option = "Adaptive Histogram Equalization" -> {"clipLimit", "tileSize"}
      [] option = "Edge Detection" -> {"threshold1", "threshold2"}
      [] option = "Unsharp Masking" -> {"sigma", "amount"}
      [] option = "High-Pass Filtering" -> {"kernelSize"}
      [] option = "Laplacian Filtering" -> {"kernelSize", "scale"}
      [] option = "Thresholding" -> {"threshold"}
      [] option = "Pseudocolor Mapping" -> {"colorMap"}
      [] option = "Color Boosting" -> {"boostFactor"}
      [] option = "Channel Mixing Simulation" -> {"mixFactors"}
      [] option = "Manual Colorization" -> {"colorTint"}
      [] option = "Multi-Scale Retinex" -> {"retinexScales"}
      [] option = "Gabor Filter" ->
            {"gaborKernelSize", "gaborSigma", "gaborTheta", "gaborLambda",
             "gaborGamma", "gaborPsi"}
      [] OTHER -> {}

\* The content of a Mat: the image it was read from and the transforms
\* applied to it since, each with the parameter values it read.
\* new cv.Mat(): no content.
EmptyMat == [orig |-> Null, applied |-> <<>>]

\* cv.imread(img)
imread(img) == [orig |-> img, applied |-> <<>>]

\* One case of the switch: dst receives the transform of src.
Transform(src, option, p) ==
    [orig |-> src.orig,
     applied |-> Append(src.applied,
                        [option |-> option,
                         args |-> [f \in UsedFields(option) |-> p[f]]])]

\* applyProcessingStep: the value it returns. The default branch logs and
\* returns src.clone().
applyProcessingStep(src, option, p) ==
    IF option \in Options THEN Transform(src, option, p) ELSE src

\* The for loop of processImage: dst = await applyProcessingStep(src, ...);
\* src.delete(); src = dst.clone().
RECURSIVE stepLoop(_, _, _)
stepLoop(src, dst, steps) ==
    IF steps = <<>>
    THEN [src |-> src, dst |-> dst]
    ELSE LET out == applyProcessingStep(src, Head(steps).option, Head(steps).params)
         IN  stepLoop(out, out, Tail(steps))

\* document.createElement('canvas'): a canvas nothing was drawn on.
BlankCanvas == "blank canvas"

\* cv.imshow(canvas, mat): the content of that canvas afterwards.
imshow(canvas, mat) == mat

\* canvas.toDataURL(): the text that encodes the content of the canvas.
toDataURL(canvas) == ToString([png |-> canvas])

\* Lines 24-37 of processImage once loadImage has resolved: the data URL
\* handed to setProcessedImage. imshow draws on one new canvas; the data
\* URL is taken from another new canvas.
processImageResult(img, steps) ==
    LET end == stepLoop(imread(img), EmptyMat, steps)
        shown == imshow(BlankCanvas, end.dst)
    IN  toDataURL(BlankCanvas)

\* Whether the default branch of the switch is taken for a step of the chain.
HasUnknownOption(steps) == \E i \in 1..Len(steps) : steps[i].option \notin Options

\* console.error('Unknown processing option:', option) of the default branch,
\* for the steps of a chain that were applied.
unknownOptionErrors(steps) ==
    IF HasUnknownOption(steps) THEN {"Unknown processing option"} ELSE {}

\* ------------------------------------------- the Mats of one processImage
\* The cv.Mat objects one call of processImage makes, numbered in the order
\* they are made: `made` counts them, `deleted` lists the objects .delete()
\* was called on, in order, and src and dst are the objects the variables
\* of that name refer to.
\* let src = cv.imread(img); let dst = new cv.Mat();
firstMats == [made |-> 2, deleted |-> <<>>, src |-> 1, dst |-> 2]

\* applyProcessingStep(src, option, params): `let dst = new cv.Mat()`, which
\* a case of the switch fills and the default branch replaces by
\* src.clone(); the Mat returned is assigned to dst of processImage.
applyProcessingStepMats(m, option) ==
    IF option \in Options
    THEN [m EXCEPT !.made = m.made + 1, !.dst = m.made + 1]
    ELSE [m EXCEPT !.made = m.made + 2, !.dst = m.made + 2]

\* The for loop of processImage seen on the Mats: dst = await
\* applyProcessingStep(...); src.delete(); src = dst.clone().
RECURSIVE stepLoopMats(_, _)
stepLoopMats(m, steps) ==
    IF steps = <<>>
    THEN m
    ELSE LET out == applyProcessingStepMats(m, Head(steps).option)
             freed == [out EXCEPT !.deleted = Append(out.deleted, out.src)]
             cloned == [freed EXCEPT !.made = freed.made + 1,
                                     !.src = freed.made + 1]
         IN  stepLoopMats(cloned, Tail(steps))

\* The Mats of a call of processImage that reaches its end: the loop, then
\* src.delete(); dst.delete().
processImageMats(steps) ==
    LET end == stepLoopMats(firstMats, steps)
    IN  [made |-> end.made, deleted |-> end.deleted \o <<end.src, end.dst>>]

\* -------------------------------------------------------------- the App
Init ==
    /\ image = Null
    /\ processedImage = Null
    /\ selectedOption = Null
    /\ params = DefaultParams
    /\ history = EmptyHistory
    /\ openCvLoaded = FALSE
    /\ windowCv = FALSE
    /\ nextId = 1
    /\ runs = <<>>
    /\ consoleErrors = {}

\* {image && openCvLoaded && history.past.length > 0 && <ImageProcessor/>}
MountedBeforeReady(img, cvLoaded, hist) == img # Null /\ Len(hist.past) > 0

Mounted(img, cvLoaded, hist) == img # Null /\ cvLoaded /\ Len(hist.past) > 0

\* The start of processImage, up to `await loadImage(image)`.
ProcessImageStartStale(cv, img, steps) ==
    IF ~cv
    THEN /\ consoleErrors' = consoleErrors \cup {"OpenCV.js is not loaded"}
         /\ runs' = runs
    ELSE /\ Len(runs) < MaxRuns
         /\ runs' = Append(runs, [image |-> image, steps |-> history.past])
         /\ consoleErrors' = consoleErrors

ProcessImageStartUnguarded(cv, img, steps) ==
    /\ Len(runs) < MaxRuns
    /\ runs' = Append(runs, [image |-> img, steps |-> steps])
    /\ consoleErrors' = consoleErrors

processImageStart(cv, img, steps) ==
    IF ~cv
    THEN /\ consoleErrors' = consoleErrors \cup {"OpenCV.js is not loaded"}
         /\ runs' = runs
    ELSE /\ Len(runs) < MaxRuns
         /\ runs' = Append(runs, [image |-> img, steps |-> steps])
         /\ consoleErrors' = consoleErrors

\* The render that follows a state update, and the effect of ImageProcessor:
\* it runs when the component mounts and when image or steps (history.past,
\* compared by identity) differ from the previous render.
RenderOnPropChangeOnly(img, cvLoaded, cv, hist) ==
    IF /\ Mounted(img, cvLoaded, hist)
       /\ \/ img # image
          \/ hist.past # history.past
    THEN processImageStart(cv, img, hist.past)
    ELSE UNCHANGED <<runs, consoleErrors>>

Render(img, cvLoaded, cv, hist) ==
    IF /\ Mounted(img, cvLoaded, hist)
       /\ \/ ~Mounted(image, openCvLoaded, history)
          \/ img # image
          \/ hist.past # history.past
    THEN processImageStart(cv, img, hist.past)
    ELSE UNCHANGED <<runs, consoleErrors>>

\* script.onload = () => setOpenCvLoaded(true); the script has defined
\* window.cv by then.
scriptOnload ==
    /\ ~openCvLoaded
    /\ openCvLoaded' = TRUE
    /\ windowCv' = TRUE
    /\ Render(image, TRUE, TRUE, history)
    /\ UNCHANGED <<image, processedImage, selectedOption, params, history, nextId>>

\* reader.onload of handleImageUpload, for a file the user picked.
ReaderOnloadKeepsHistory(img) ==
    /\ image' = img
    /\ processedImage' = Null
    /\ Render(img, openCvLoaded, windowCv, history)
    /\ UNCHANGED <<selectedOption, params, history, openCvLoaded, windowCv, nextId>>

readerOnload(img) ==
    /\ image' = img
    /\ processedImage' = Null
    /\ history' = EmptyHistory
    /\ Render(img, openCvLoaded, windowCv, EmptyHistory)
    /\ UNCHANGED <<selectedOption, params, openCvLoaded, windowCv, nextId>>

\* onClick of an option button (ProcessingOptions is shown once image is set).
setSelectedOption(option) ==
    /\ image # Null
    /\ selectedOption' = option
    /\ UNCHANGED <<image, processedImage, params, history, openCvLoaded,
                   windowCv, nextId, runs, consoleErrors>>

\* onChange of the input `name` of the form of the selected option.
HandleParamChangeInPlace(name, value) ==
    /\ image # Null
    /\ selectedOption # Null
    /\ name \in FormFields(selectedOption)
    /\ params' = paramsWith(params, name, value)
    /\ history' =
          [past |-> [k \in DOMAIN history.past |->
                       IF history.past[k].params = params
                       THEN [history.past[k] EXCEPT !.params = params']
                       ELSE history.past[k]],
           present |-> history.present,
           future |-> [k \in DOMAIN history.future |->
                         IF history.future[k].params = params
                         THEN [history.future[k] EXCEPT !.params = params']
                         ELSE history.future[k]]]
    /\ UNCHANGED <<image, processedImage, selectedOption, openCvLoaded,
                   windowCv, nextId, runs, consoleErrors>>

handleParamChange(name, value) ==
    /\ image # Null
    /\ selectedOption # Null
    /\ name \in FormFields(selectedOption)
    /\ params' = paramsWith(params, name, value)
    /\ UNCHANGED <<image, processedImage, selectedOption, history, openCvLoaded,
                   windowCv, nextId, runs, consoleErrors>>

\* onClick of "Add Processing Step".
handleAddStep ==
    /\ image # Null
    /\ selectedOption # Null
    /\ nextId <= MaxSteps
    /\ history' = addStepUpdater(history, NewStep(selectedOption, params))
    /\ nextId' = nextId + 1
    /\ Render(image, openCvLoaded, windowCv, history')
    /\ UNCHANGED <<image, processedImage, selectedOption, params, openCvLoaded,
                   windowCv>>

\* onClick of the Undo button: shown when processedImage is set, disabled
\* when history.past is empty.
ClickUndoNeverDisabled ==
    /\ processedImage # Null
    /\ history' = undoUpdater(history)
    /\ Render(image, openCvLoaded, windowCv, history')
    /\ UNCHANGED <<image, processedImage, selectedOption, params, openCvLoaded,
                   windowCv, nextId>>

clickUndo ==
    /\ processedImage # Null
    /\ Len(history.past) # 0
    /\ history' = undoUpdater(history)
    /\ Render(image, openCvLoaded, windowCv, history')
    /\ UNCHANGED <<image, processedImage, selectedOption, params, openCvLoaded,
                   windowCv, nextId>>

\* onClick of the Redo button: shown when processedImage is set, disabled
\* when history.future is empty.
clickRedo ==
    /\ processedImage # Null
    /\ Len(history.future) # 0
    /\ history' = redoUpdater(history)
    /\ Render(image, openCvLoaded, windowCv, history')
    /\ UNCHANGED <<image, processedImage, selectedOption, params, openCvLoaded,
                   windowCv, nextId>>

\* A click on the "Download Processed Image" link, rendered when
\* processedImage is set: the browser saves the href, the App's state stays.
clickDownload ==
    /\ processedImage # Null
    /\ UNCHANGED vars

\* img.onload of loadImage for the i-th suspended run, every transform of
\* the chain returning: the rest of processImage runs to setProcessedImage.
imgOnload(i) ==
    /\ i \in 1..Len(runs)
    /\ processedImage' = processImageResult(runs[i].image, runs[i].steps)
    /\ consoleErrors' = consoleErrors \cup unknownOptionErrors(runs[i].steps)
    /\ runs' = RemoveAt(runs, i)
    /\ UNCHANGED <<image, selectedOption, params, history, openCvLoaded,
                   windowCv, nextId>>

\* img.onload for the i-th suspended run, the capability throwing in the
\* k-th step: the exception leaves processImage before setProcessedImage.
ImgOnloadThrowsKeepsGoing(i, k) ==
    /\ i \in 1..Len(runs)
    /\ k \in 1..Len(runs[i].steps)
    /\ processedImage' = processImageResult(runs[i].image, RemoveAt(runs[i].steps, k))
    /\ consoleErrors' =
          consoleErrors \cup unknownOptionErrors(RemoveAt(runs[i].steps, k))
    /\ runs' = RemoveAt(runs, i)
    /\ UNCHANGED <<image, selectedOption, params, history, openCvLoaded,
                   windowCv, nextId>>

imgOnloadThrows(i, k) ==
    /\ i \in 1..Len(runs)
    /\ k \in 1..Len(runs[i].steps)
    /\ consoleErrors' =
          consoleErrors \cup unknownOptionErrors(SubSeq(runs[i].steps, 1, k - 1))
    /\ runs' = RemoveAt(runs, i)
    /\ UNCHANGED <<image, processedImage, selectedOption, params, history,
                   openCvLoaded, windowCv, nextId>>

\* img.onerror of loadImage for the i-th suspended run: the promise is
\* rejected and processImage ends there.
imgOnerror(i) ==
    /\ i \in 1..Len(runs)
    /\ runs' = RemoveAt(runs, i)
    /\ UNCHANGED <<image, processedImage, selectedOption, params, history,
                   openCvLoaded, windowCv, nextId, consoleErrors>>

Next ==
    \/ scriptOnload
    \/ \E img \in Images : readerOnload(img)
    \/ \E o \in SelectableOptions : setSelectedOption(o)
    \/ \E o \in Options, t \in InputTexts :
          \E name \in FormFields(o) : handleParamChange(name, t)
    \/ handleAddStep
    \/ clickUndo
    \/ clickRedo
    \/ clickDownload
    \/ \E i \in 1..MaxRuns : imgOnload(i)
    \/ \E i \in 1..MaxRuns, k \in 1..MaxSteps : imgOnloadThrows(i, k)
    \/ \E i \in 1..MaxRuns : imgOnerror(i)

Spec == Init /\ [][Next]_vars

\* The Image of loadImage fires load or error: a suspended run resumes, and
\* from there processImage runs to its end or to the exception that ends it.
runSettles ==
    \E i \in 1..MaxRuns :
       \/ imgOnload(i)
       \/ \E k \in 1..MaxSteps : imgOnloadThrows(i, k)
       \/ imgOnerror(i)

LiveSpec == Init /\ [][Next]_vars /\ WF_vars(runSettles)

\* ------------------------------------------------ the history on its own
\* addStep, undo and redo called directly, in any order, and the reset of
\* reader.onload; the rest of the App is left out.
HistInit == Init

\* The steps handed to addStep: an option with the default parameter
\* record or with an edited one.
HistStepInputs ==
    { NewStep(o, p) : o \in SelectableOptions,
                      p \in {DefaultParams, paramsWith(DefaultParams, "threshold", "64")} }

addStep(step) ==
    /\ nextId <= MaxHistSteps
    /\ history' = addStepUpdater(history, step)
    /\ nextId' = nextId + 1
    /\ UNCHANGED <<image, processedImage, selectedOption, params,
                   openCvLoaded, windowCv, runs, consoleErrors>>

undo ==
    /\ history' = undoUpdater(history)
    /\ UNCHANGED <<image, processedImage, selectedOption, params,
                   openCvLoaded, windowCv, nextId, runs, consoleErrors>>

redo ==
    /\ history' = redoUpdater(history)
    /\ UNCHANGED <<image, processedImage, selectedOption, params,
                   openCvLoaded, windowCv, nextId, runs, consoleErrors>>

\* setHistory({ past: [], present: null, future: [] }) of reader.onload.
resetHistory ==
    /\ history' = EmptyHistory
    /\ UNCHANGED <<image, processedImage, selectedOption, params,
                   openCvLoaded, windowCv, nextId, runs, consoleErrors>>

HistNext ==
    \/ \E step \in HistStepInputs : addStep(step)
    \/ undo
    \/ redo
    \/ resetHistory

HistorySpec == HistInit /\ [][HistNext]_vars

\* ------------------------------------------- ImageProcessor on its own
\* The component rendered with props of its parent's choosing, among them
\* chains that hold an option the switch has no case for.
UnknownOption == "Sepia Tone"

ExecOptions == SelectableOptions \cup {UnknownOption}

ExecChains ==
    { [k \in DOMAIN f |-> [id |-> k, option |-> f[k], params |-> DefaultParams]] :
        f \in UNION { [1..m -> ExecOptions] : m \in 1..MaxChain } }

ExecInit ==
    /\ image = Null
    /\ processedImage = Null
    /\ selectedOption = Null
    /\ params = DefaultParams
    /\ history = EmptyHistory
    /\ openCvLoaded \in BOOLEAN
    /\ windowCv = openCvLoaded
    /\ nextId = 1
    /\ runs = <<>>
    /\ consoleErrors = {}

\* <ImageProcessor image={img} steps={steps} .../> rendered while no run is
\* suspended: the effect runs when the props differ from the last render.
renderProcessor(img, steps) ==
    /\ runs = <<>>
    /\ <<img, steps>> # <<image, history.past>>
    /\ image' = img
    /\ history' = [history EXCEPT !.past = steps]
    /\ processImageStart(windowCv, img, steps)
    /\ UNCHANGED <<processedImage, selectedOption, params, openCvLoaded,
                   windowCv, nextId>>

ExecNext ==
    \/ \E img \in Images, steps \in ExecChains : renderProcessor(img, steps)
    \/ \E i \in 1..MaxRuns : imgOnload(i)
    \/ \E i \in 1..MaxRuns, k \in 1..MaxChain : imgOnloadThrows(i, k)
    \/ \E i \in 1..MaxRuns : imgOnerror(i)

ExecSpec == ExecInit /\ [][ExecNext]_vars

\* ------------------------------------------- ProcessingOptions on its own
\* The form used on an uploaded image before the script has loaded, so that
\* no run starts: an option with a scalar field and one with the fields
\* of a vector are selected, their inputs edited, and steps added.
FormOptions == {"Thresholding", "Color Boosting"}

FormInit ==
    /\ image \in Images
    /\ processedImage = Null
    /\ selectedOption = Null
    /\ params = DefaultParams
    /\ history = EmptyHistory
    /\ openCvLoaded = FALSE
    /\ windowCv = FALSE
    /\ nextId = 1
    /\ runs = <<>>
    /\ consoleErrors = {}

FormNext ==
    \/ \E o \in FormOptions : setSelectedOption(o)
    \/ \E o \in FormOptions, t \in InputTexts :
          \E name \in FormFields(o) : handleParamChange(name, t)
    \/ handleAddStep

FormSpec == FormInit /\ [][FormNext]_vars

\* ==================================================================
\* Properties
\* ==================================================================

\* C1: addStep(s) makes past the old past with s appended and makes future
\* empty, whatever future held before.
C1_AddStepAppendsAndPrunes ==
    [][handleAddStep =>
          /\ history'.past = Append(history.past, NewStep(selectedOption, params))
          /\ history'.future = <<>>]_vars

\* The second step object is alone in past and future is empty: it was
\* added after the first was undone, so addStep emptied a future that held
\* the first step.
C1_Witness_PrunedFuture ==
    /\ Len(history.past) = 1
    /\ history.past[1].id = 2
    /\ history.future = <<>>

\* C2: undo() changes nothing when past is empty; otherwise the last element
\* of past leaves past and becomes the first element of future, every other
\* element staying where it was.
C2_UndoMovesLastToFront ==
    [][undo =>
          IF history.past = <<>>
          THEN history' = history
          ELSE /\ history'.past = Front(history.past)
               /\ history'.future = <<Last(history.past)>> \o history.future]_vars

\* Undo has emptied past and moved two steps or more to future, where a
\* further undo changes nothing.
C2_Witness_UndoneToEmpty ==
    /\ history.past = <<>>
    /\ Len(history.future) >= 2

\* C3: redo() changes nothing when future is empty; otherwise the first
\* element of future leaves future and becomes the last element of past,
\* every other element staying where it was.
C3_RedoMovesFirstToEnd ==
    [][redo =>
          IF history.future = <<>>
          THEN history' = history
          ELSE /\ history'.past = Append(history.past, Head(history.future))
               /\ history'.future = Tail(history.future)]_vars

\* Two undone steps wait in future behind a past that is not empty: redo
\* moves the first of them, and its place in past and the step left behind
\* in future show the order.
C3_Witness_TwoToRedo ==
    /\ Len(history.past) = 1
    /\ Len(history.future) = 2

\* C4, as claimed: in every reachable history state, undo() then redo()
\* gives back the (past, future) pair that held before the undo.
C4_UndoRedoRestores ==
    redoUpdater(undoUpdater(history)) = history

\* C4, amended: in every reachable history state whose past is not empty,
\* undo() then redo() gives back the history that held before the undo.
C4_UndoRedoRestoresNonEmptyPast ==
    history.past # <<>> => redoUpdater(undoUpdater(history)) = history

\* Steps on both sides: undo then redo moves a step onto a future that is
\* not empty, and back.
C4_Witness_BothSides ==
    /\ history.past # <<>>
    /\ history.future # <<>>

\* C5: addStep leaves future empty and none of the steps future held is in
\* the history afterwards; and a step object that is in neither past nor
\* future is in neither after any later call.
C5_PrunedStepsUnrecoverable ==
    [][/\ nextId' # nextId =>
             /\ history'.future = <<>>
             /\ \A i \in 1..Len(history.future) :
                   history.future[i].id \notin StepIds(history')
       /\ \A id \in 1..(nextId - 1) :
             id \notin StepIds(history) => id \notin StepIds(history')]_vars

\* Steps 1 and 3 are what the history holds, step 3 undone: step 2 was
\* undone and then dropped by the addStep of step 3, and the undo after
\* that did not bring it back.
C5_Witness_PrunedThenUndone ==
    /\ Len(history.past) = 1 /\ history.past[1].id = 1
    /\ Len(history.future) = 1 /\ history.future[1].id = 3

\* C6: past followed by future is the same sequence before and after every
\* undo and every redo.
C6_ConcatenationStable ==
    [][(undo \/ redo) =>
          history'.past \o history'.future = history.past \o history.future]_vars

\* Three steps were added and all of them undone: future holds them in the
\* order they were added.
C6_Witness_AllUndoneInOrder ==
    /\ history.past = <<>>
    /\ Len(history.future) >= 3
    /\ \A i \in 1..Len(history.future) : history.future[i].id = i

\* C7: the present field of the history is null in every reachable state.
C7_PresentAlwaysNull ==
    history.present = NullStep

\* An image is loaded, and steps were added and one of them undone.
C7_Witness_AfterAddAndUndo ==
    /\ image # Null
    /\ Len(history.past) = 1
    /\ Len(history.future) = 1

\* C8: when the reader of a picked file finishes, past and future become
\* empty whatever they held, and the final image shown is cleared.
C8_LoadResetsHistory ==
    [][\A img \in Images :
          readerOnload(img) =>
             /\ history'.past = <<>>
             /\ history'.future = <<>>
             /\ processedImage' = Null]_vars

\* Every step object was created, and the history holds none and no final
\* image is shown: only the load of an image empties both past and future.
C8_Witness_ResetAfterSteps ==
    /\ nextId > MaxSteps
    /\ history.past = <<>>
    /\ history.future = <<>>
    /\ processedImage = Null
    /\ image # Null

\* C9: the final image a completing run hands to setProcessedImage is the
\* content of the working buffer after the steps of the run were applied,
\* in order, starting from the original image.
C9_FinalImageIsWorkingBuffer ==
    [][\A i \in 1..MaxRuns :
          imgOnload(i) =>
             processedImage' =
                toDataURL(stepLoop(imread(runs[i].image), EmptyMat, runs[i].steps).dst)]_vars

\* C10: a run whose chain holds an option outside the 15 aborts: it never
\* completes, so no final image is handed to setProcessedImage for it.
C10_UnknownOptionAborts ==
    [][\A i \in 1..MaxRuns :
          (i \in 1..Len(runs) /\ HasUnknownOption(runs[i].steps)) => ~imgOnload(i)]_vars

\* C11: when the transform of the k-th step of a run throws, the run ends
\* there: the steps after the k-th are not applied (an option without a
\* case among them logs nothing) and setProcessedImage is not called, so
\* the final image shown stays what it was.
C11_FailedStepEndsRun ==
    [][\A i \in 1..MaxRuns, k \in 1..MaxChain :
          imgOnloadThrows(i, k) =>
             /\ processedImage' = processedImage
             /\ consoleErrors' =
                   consoleErrors \cup unknownOptionErrors(SubSeq(runs[i].steps, 1, k - 1))
             /\ runs' = RemoveAt(runs, i)]_vars

\* The run of a chain whose second step has no case is over, nothing was
\* logged for that step and no final image is shown: the run ended before
\* its second step.
C11_Witness_EndedBeforeSecondStep ==
    /\ windowCv
    /\ runs = <<>>
    /\ Len(history.past) = 2
    /\ history.past[1].option # UnknownOption
    /\ history.past[2].option = UnknownOption
    /\ consoleErrors = {}
    /\ processedImage = Null

\* C12: once the capability is ready, every change of history.past by
\* addStep, undo or redo starts a run over the new past, the change that
\* leaves past empty included, so that the final image shown is rebuilt
\* from the new past.
C12_PastChangeStartsRun ==
    [][(openCvLoaded /\ (handleAddStep \/ clickUndo \/ clickRedo)) =>
          runs' = Append(runs, [image |-> image, steps |-> history'.past])]_vars

\* C14: a run holds the image and the past list of the render that
\* started it, and no later step changes them while the run is suspended:
\* addStep, undo and redo build new lists and leave the runs in flight as
\* they are; a step only adds a run at the end or removes the run that ends.
C14_RunKeepsItsSteps ==
    [][/\ Len(runs') > Len(runs) =>
             runs' = Append(runs, [image |-> image', steps |-> history'.past])
       /\ Len(runs') = Len(runs) => runs' = runs
       /\ Len(runs') < Len(runs) =>
             \E i \in 1..Len(runs) : runs' = RemoveAt(runs, i)]_vars

\* A run of the image shown is suspended and holds a list that is no longer
\* history.past: the history changed after the run started.
C14_Witness_HistoryMovedOn ==
    \E i \in 1..Len(runs) :
       /\ runs[i].image = image
       /\ runs[i].steps # history.past
       /\ Len(runs[i].steps) < Len(history.past)

\* C15: processImage is never called before script.onload has set
\* openCvLoaded: a run is in flight, or the effect has logged that the
\* capability is missing, only in states where the flag is set, whatever
\* the order of the image upload, addStep and the load of the script.
C15_NoRunBeforeReady ==
    (runs # <<>> \/ consoleErrors # {}) => (openCvLoaded /\ windowCv)

\* The flag is set and one run, over the whole past, is in flight with no
\* final image shown yet, as when the script loads with steps waiting.
C15_Witness_RunAfterReady ==
    /\ openCvLoaded
    /\ nextId > MaxSteps
    /\ Len(history.past) = MaxSteps
    /\ runs = <<[image |-> image, steps |-> history.past]>>
    /\ processedImage = Null

C17_UnavailableEndsAtGuard ==
    [][\A img \in Images, steps \in ExecChains :
          (~windowCv /\ renderProcessor(img, steps)) =>
             /\ runs' = runs
             /\ processedImage' = processedImage
             /\ consoleErrors' = consoleErrors \cup {"OpenCV.js is not loaded"}]_vars

\* Without window.cv, the component was rendered with a chain holding an
\* option without a case: only the missing capability was logged, and no
\* run is in flight.
C17_Witness_GuardLogged ==
    /\ ~windowCv
    /\ \E k \in DOMAIN history.past : history.past[k].option = UnknownOption
    /\ consoleErrors = {"OpenCV.js is not loaded"}
    /\ runs = <<>>
    /\ image # Null

\* C18: a step of past or future keeps the option and the parameter values
\* it was created with: no step of the App (an edit in the form, addStep,
\* undo, redo, a run ending) changes a step that stays in the history.
C18_StepParamsFrozen ==
    [][\A k \in DOMAIN (history.past \o history.future) :
          \A j \in DOMAIN (history'.past \o history'.future) :
             (history.past \o history.future)[k].id =
                (history'.past \o history'.future)[j].id
             => (history'.past \o history'.future)[j] =
                   (history.past \o history.future)[k]]_vars

\* A step created with the default parameters is undone and another is in
\* past, while the form holds edited parameters: the edit came after the
\* creation of the undone step.
C18_Witness_EditedAfterCreation ==
    /\ history.past # <<>>
    /\ history.future # <<>>
    /\ history.future[1].params = DefaultParams
    /\ params # DefaultParams
    /\ history.past[1].params = DefaultParams

\* C19: the Undo button can be clicked only in states where past is not
\* empty, the Redo button only where future is not empty, and the download
\* link only where a final image is set.
C19_ControlsGated ==
    /\ ENABLED clickUndo => history.past # <<>>
    /\ ENABLED clickRedo => history.future # <<>>
    /\ ENABLED clickDownload => processedImage # Null

\* The controls are shown with Undo disabled: a final image is set, past is
\* empty and a step waits in future, so that Redo and the download link can
\* be clicked and Undo cannot.
C19_Witness_UndoDisabledRedoEnabled ==
    /\ ENABLED clickRedo
    /\ ENABLED clickDownload
    /\ ~ENABLED clickUndo
    /\ history.past = <<>>
    /\ Len(runs) < MaxRuns

\* C20: when a run of one step or more ends normally, every Mat it made
\* (the decoded source, the first dst, the output of each step and each
\* clone) has had delete called on it exactly once: none is left and none
\* is deleted twice.
C20_EveryMatDeletedOnce ==
    [][\A i \in 1..MaxRuns :
          imgOnload(i) =>
             \A b \in 1..processImageMats(runs[i].steps).made :
                Cardinality({k \in DOMAIN processImageMats(runs[i].steps).deleted :
                               processImageMats(runs[i].steps).deleted[k] = b}) = 1]_vars

\* C21: when runs overlap, the final image shown once every run has ended
\* comes from the latest past: the run that ends last, if it calls
\* setProcessedImage while steps are in past, is the run that was started
\* for the image and the past of that moment, not one started earlier.
C21_LastShownIsLatest ==
    [][\A i \in 1..MaxRuns :
          (imgOnload(i) /\ runs' = <<>> /\ history.past # <<>>) =>
             runs[i] = [image |-> image, steps |-> history.past]]_vars

\* C22: a final image is set only by a run over the image that is loaded:
\* a run still suspended when another image is loaded never calls
\* setProcessedImage, so no final image (and with it Undo, Redo and the
\* download link) appears while past and future are both empty.
C22_NoResultOfPreviousImage ==
    [][\A i \in 1..MaxRuns :
          imgOnload(i) =>
             /\ runs[i].image = image
             /\ history.past # <<>> \/ history.future # <<>>]_vars

\* C23: an edit of an input of the form, the inputs of the components of
\* the boost vector, the mixing matrix, the tint vector and the retinex
\* scales included, puts the number typed into the field or component of
\* the live params that the input shows, from where the next addStep takes
\* it. Explored for the inputs of the options of FormOptions; the inputs of
\* the other vectors and of the matrix go through the same handler.
C23_EditReachesItsField ==
    [][\A o \in FormOptions, t \in InputTexts :
          \A name \in FormFields(o) :
             handleParamChange(name, t) =>
                inputValue(params', name) = parseFloat(t)]_vars

====
